---- MODULE Spec2Model ----
(***************************************************************************)
(* Scoring, leaderboard and recalculation of Tonashiro/monstats.           *)
(*                                                                         *)
(* Numbers.  Scores are JavaScript numbers rounded to two decimals; they   *)
(* are kept here as integers in hundredths (10000 = 100.00).  Weights are  *)
(* kept in hundredths as well (25 = 0.25).  Raw metrics are small          *)
(* non-negative integers in an arbitrary unit.  The IEEE rounding error of *)
(* the weighted sum is not modelled: sums are exact and Math.round rounds  *)
(* half up.                                                                *)
(***************************************************************************)
EXTENDS Integers, Sequences, FiniteSets, TLC

VARIABLES
    call,       \* last call of a pure scoring function, arguments and result
    store,      \* the users table, in storage order
    stats,      \* the GET /api/stats request in flight
    job,        \* recalculation batches: "post" (the endpoint), "stats" (nested)
    writes,     \* prisma.user.update calls issued and not yet executed
    resp,       \* last response of POST /api/recalculate-*
    runs,       \* score columns after the last two undisturbed recalculations
    used,       \* requests, recalculations and failures spent so far
    lb,         \* last response of GET /api/leaderboard
    lbNext,     \* response for the following page of the same query
    fetch       \* a GET /api/stats request followed from its first page fetch

vars == <<call, store, stats, job, writes, resp, runs, used, lb, lbNext,
          fetch>>

None == "none"

(***************************************************************************)
(* Bounds and inputs                                                       *)
(***************************************************************************)
MaxValue == 3
MaxPop == 3

Values == 0..MaxValue

SeqUpTo(S, n) == UNION {[1..k -> S] : k \in 0..n}

\* Raw metrics a stats request can compute (streak <= days <= txCount).
Metrics(tx, gas, vol, nft, d1, streak, days) ==
    [txCount |-> tx, gasSpentMON |-> gas, totalVolume |-> vol,
     nftBagValue |-> nft, isDay1User |-> d1, longestStreak |-> streak,
     daysActive |-> days]

MetricInputs ==
    { Metrics(0, 0, 0, 0, FALSE, 0, 0),
      Metrics(1, 1, 1, 0, TRUE, 1, 1),
      Metrics(3, 2, 3, 2, FALSE, 1, 2),
      Metrics(3, 3, 3, 3, TRUE, 2, 3) }

(***************************************************************************)
(* src/lib/scoring: pure functions                                         *)
(***************************************************************************)
\* A drifted weight table: nft raised to 0.20 without lowering streak.
WEIGHTS_Drift ==
    [volume |-> 25, gas |-> 20, transactions |-> 15, nft |-> 20,
     daysActive |-> 10, streak |-> 10, day1Bonus |-> 5]

\* A weight table with streak lowered to 0.05 and nothing raised.
WEIGHTS_Short ==
    [volume |-> 25, gas |-> 20, transactions |-> 15, nft |-> 15,
     daysActive |-> 10, streak |-> 5, day1Bonus |-> 5]

WEIGHTS ==
    [volume |-> 25, gas |-> 20, transactions |-> 15, nft |-> 15,
     daysActive |-> 10, streak |-> 10, day1Bonus |-> 5]

\* Math.round(n / d) for n >= 0, d > 0: round half up.
RoundDiv(n, d) == (2 * n + d) \div (2 * d)

\* Math.log(1 + v).  In IEEE doubles the logarithm is monotone but not
\* injective (1 + 1e-18 = 1, so a volume of one wei and a volume of zero
\* both give 0).  The integer logarithm keeps both properties at the
\* resolution of the model: Log1p(0) = 0, Log1p(1) = Log1p(2) = 1, ...
RECURSIVE ILog2(_)
ILog2(n) == IF n <= 1 THEN 0 ELSE 1 + ILog2(n \div 2)

Log1p(v) == ILog2(1 + v)

\* [...a].sort((a, b) => a - b)
RECURSIVE InsertAsc(_, _)
InsertAsc(x, s) ==
    IF s = <<>> THEN <<x>>
    ELSE IF x <= Head(s) THEN <<x>> \o s
    ELSE <<Head(s)>> \o InsertAsc(x, Tail(s))

RECURSIVE SortAsc(_)
SortAsc(s) == IF s = <<>> THEN <<>> ELSE InsertAsc(Head(s), SortAsc(Tail(s)))

\* sortedValues.findIndex((v) => v >= x): 0-based, -1 when there is none.
FindIndexGE(s, x) ==
    LET hits == {i \in 1..Len(s) : s[i] >= x}
    IN  IF hits = {} THEN -1
        ELSE (CHOOSE i \in hits : \A j \in hits : i <= j) - 1

MapSeq(s, F(_)) == [i \in 1..Len(s) |-> F(s[i])]

\* A normalizer that ranks by the first value strictly greater than the
\* query value (findIndex with > in place of >=).
normalizeToPercentile_GT(value, allValues, useLogTransform) ==
    IF Len(allValues) = 0 THEN 0
    ELSE IF Len(allValues) = 1 THEN 10000
    ELSE
      LET normalizedValue == IF useLogTransform THEN Log1p(value) ELSE value
          normalizedAllValues ==
              IF useLogTransform THEN MapSeq(allValues, Log1p) ELSE allValues
          sortedValues == SortAsc(normalizedAllValues)
          rank == FindIndexGE(sortedValues, normalizedValue + 1)
      IN  IF rank = -1 THEN 0
          ELSE RoundDiv(rank * 10000, Len(sortedValues))

normalizeToPercentile(value, allValues, useLogTransform) ==
    IF Len(allValues) = 0 THEN 0
    ELSE IF Len(allValues) = 1 THEN 10000
    ELSE
      LET normalizedValue == IF useLogTransform THEN Log1p(value) ELSE value
          normalizedAllValues ==
              IF useLogTransform THEN MapSeq(allValues, Log1p) ELSE allValues
          sortedValues == SortAsc(normalizedAllValues)
          rank == FindIndexGE(sortedValues, normalizedValue)
      IN  IF rank = -1 THEN 0
          ELSE RoundDiv(rank * 10000, Len(sortedValues))

Column(allUsersMetrics, f) == [i \in 1..Len(allUsersMetrics) |-> allUsersMetrics[i][f]]

\* volumeScore * WEIGHTS.volume + ... in units of 1/10000.
WeightedSum(s) ==
    s.volumeScore * WEIGHTS.volume + s.gasScore * WEIGHTS.gas
    + s.transactionScore * WEIGHTS.transactions + s.nftScore * WEIGHTS.nft
    + s.daysActiveScore * WEIGHTS.daysActive + s.streakScore * WEIGHTS.streak
    + s.day1BonusScore * WEIGHTS.day1Bonus

calculateComponentScores(userMetrics, allUsersMetrics) ==
    LET c == [volumeScore |->
                 normalizeToPercentile(userMetrics.totalVolume,
                     Column(allUsersMetrics, "totalVolume"), TRUE),
              gasScore |->
                 normalizeToPercentile(userMetrics.gasSpentMON,
                     Column(allUsersMetrics, "gasSpentMON"), TRUE),
              transactionScore |->
                 normalizeToPercentile(userMetrics.txCount,
                     Column(allUsersMetrics, "txCount"), FALSE),
              nftScore |->
                 normalizeToPercentile(userMetrics.nftBagValue,
                     Column(allUsersMetrics, "nftBagValue"), TRUE),
              daysActiveScore |->
                 normalizeToPercentile(userMetrics.daysActive,
                     Column(allUsersMetrics, "daysActive"), FALSE),
              streakScore |->
                 normalizeToPercentile(userMetrics.longestStreak,
                     Column(allUsersMetrics, "longestStreak"), FALSE),
              day1BonusScore |-> IF userMetrics.isDay1User THEN 10000 ELSE 0]
    IN  [volumeScore |-> c.volumeScore, gasScore |-> c.gasScore,
         transactionScore |-> c.transactionScore, nftScore |-> c.nftScore,
         daysActiveScore |-> c.daysActiveScore, streakScore |-> c.streakScore,
         day1BonusScore |-> c.day1BonusScore,
         totalScore |-> RoundDiv(WeightedSum(c), 100)]

ComponentFields ==
    {"volumeScore", "gasScore", "transactionScore", "nftScore",
     "daysActiveScore", "streakScore", "day1BonusScore"}

(***************************************************************************)
(* generateLeaderboard: stable sort by totalScore, descending, then        *)
(* userNumber = index + 1.                                                 *)
(***************************************************************************)
RECURSIVE InsertDesc(_, _)
InsertDesc(x, s) ==
    IF s = <<>> THEN <<x>>
    ELSE IF Head(s).scores.totalScore <= x.scores.totalScore THEN <<x>> \o s
    ELSE <<Head(s)>> \o InsertDesc(x, Tail(s))

RECURSIVE SortDesc(_)
SortDesc(s) == IF s = <<>> THEN <<>> ELSE InsertDesc(Head(s), SortDesc(Tail(s)))

\* A leaderboard that maps the users without sorting them.
generateLeaderboard_Unsorted(usersWithScores) ==
    [index \in 1..Len(usersWithScores) |->
        [userNumber |-> index,
         walletAddress |-> usersWithScores[index].walletAddress,
         totalScore |-> usersWithScores[index].scores.totalScore,
         metrics |-> usersWithScores[index].metrics,
         scores |-> usersWithScores[index].scores]]

generateLeaderboard(usersWithScores) ==
    LET sortedUsers == SortDesc(usersWithScores)
    IN  [index \in 1..Len(sortedUsers) |->
            [userNumber |-> index,
             walletAddress |-> sortedUsers[index].walletAddress,
             totalScore |-> sortedUsers[index].scores.totalScore,
             metrics |-> sortedUsers[index].metrics,
             scores |-> sortedUsers[index].scores]]

(***************************************************************************)
(* The users table.  A row's id is its position in store: rows are never   *)
(* deleted.  src is history: the arguments of the call of                  *)
(* calculateComponentScores whose result the row's score columns hold.     *)
(***************************************************************************)
\* Metrics the stats requests of the interleaved runs compute.
RefreshMetrics ==
    { Metrics(1, 1, 1, 0, TRUE, 1, 1),
      Metrics(3, 2, 3, 2, FALSE, 1, 2) }

MaxRequests == 2
MaxRecalcs == 2
MaxFailures == 1

\* Wallet addresses (0x + hex digits in the program), as lists of characters.
Addresses == { <<"a", "1">>, <<"A", "1">>, <<"b", "2">> }

AllMetrics(st) == [i \in 1..Len(st) |-> st[i].m]

\* prisma.user.findMany without orderBy: the rows in an order of the
\* database's choosing.
FindManyOrders(st) == Permutations(1..Len(st))

\* An update that writes totalScore in a statement of its own, the seven
\* component columns being left for a second statement.
UpdateScores_TotalOnly(row, s, src) ==
    [row EXCEPT !.s.totalScore = s.totalScore, !.src = src]

\* prisma.user.update({ where: { id }, data: { ...eight score columns } })
\* is one UPDATE statement.
\* An update that writes back the metrics read with the snapshot as well.
UpdateScores_WithMetrics(row, s, src) ==
    [row EXCEPT !.s = s, !.src = src, !.m = src.m]

UpdateScores(row, s, src) == [row EXCEPT !.s = s, !.src = src]

\* prisma.user.upsert({ where: { walletAddress: wallet }, update, create })
Upsert(st, wallet, m, s, src) ==
    IF \E i \in 1..Len(st) : st[i].walletAddress = wallet
    THEN LET i == CHOOSE i \in 1..Len(st) : st[i].walletAddress = wallet
         IN  [st EXCEPT ![i] = [@ EXCEPT !.m = m, !.s = s, !.src = src]]
    ELSE Append(st, [walletAddress |-> wallet, m |-> m, s |-> s, src |-> src])

\* users.find((u) => u.walletAddress === entry.walletAddress)
FindUser(users, walletAddress) ==
    LET hits == {k \in 1..Len(users) : users[k].walletAddress = walletAddress}
    IN  users[CHOOSE k \in hits : \A j \in hits : k <= j]

\* The rows as findMany returned them, each with its id.
Users(st, order) ==
    [k \in 1..Len(order) |->
        [id |-> order[k], walletAddress |-> st[order[k]].walletAddress,
         metrics |-> st[order[k]].m]]

\* usersWithMetrics.map(user => ({ ..., scores: calculateComponentScores(
\*     user.metrics, usersWithMetrics.map(u => u.metrics)) }))
UsersWithScores(users) ==
    LET pop == [k \in 1..Len(users) |-> users[k].metrics]
    IN  [k \in 1..Len(users) |->
            [walletAddress |-> users[k].walletAddress,
             metrics |-> users[k].metrics,
             scores |-> calculateComponentScores(users[k].metrics, pop)]]

\* Update calls that take the row at the leaderboard entry's index instead
\* of the row with the entry's wallet address.
RankingUpdates_ByIndex(o, st, order) ==
    LET users == Users(st, order)
        leaderboard == generateLeaderboard(UsersWithScores(users))
    IN  { [o |-> o, id |-> users[k].id,
           s |-> leaderboard[k].scores,
           src |-> [m |-> leaderboard[k].metrics, pop |-> AllMetrics(st)]]
          : k \in 1..Len(leaderboard) }

\* The update calls of one batch of recalculate-rankings and of
\* recalculateAllRankings: one per leaderboard entry, for the row found by
\* wallet address.  (src.pop is the population in storage order.)
RankingUpdates(o, st, order) ==
    LET users == Users(st, order)
        leaderboard == generateLeaderboard(UsersWithScores(users))
    IN  { [o |-> o, id |-> FindUser(users, leaderboard[k].walletAddress).id,
           s |-> leaderboard[k].scores,
           src |-> [m |-> leaderboard[k].metrics, pop |-> AllMetrics(st)]]
          : k \in 1..Len(leaderboard) }

\* The update calls of one batch of recalculate-scores: one per row.
ScoreUpdates(o, st, order) ==
    LET users == Users(st, order)
        scored == UsersWithScores(users)
    IN  { [o |-> o, id |-> users[k].id, s |-> scored[k].scores,
           src |-> [m |-> users[k].metrics, pop |-> AllMetrics(st)]]
          : k \in 1..Len(users) }

BatchUpdates(o, kind, st, order) ==
    IF kind = "scores" THEN ScoreUpdates(o, st, order)
    ELSE RankingUpdates(o, st, order)

\* Wallet addresses in leaderboard order, as the batch computed it.
BatchOrder(st, order) ==
    LET leaderboard == generateLeaderboard(UsersWithScores(Users(st, order)))
    IN  [k \in 1..Len(leaderboard) |-> leaderboard[k].walletAddress]

IdleJob == [pc |-> "idle", n |-> 0, order |-> <<>>, dirty |-> FALSE,
            changed |-> FALSE]
NoRun == [ok |-> FALSE, s |-> <<>>, order |-> <<>>, changed |-> FALSE]
NoRuns == [prev |-> NoRun, last |-> NoRun]
NoResp == [status |-> 0, count |-> -1, quiet |-> FALSE, changed |-> FALSE]
NoStatsOut == [status |-> 0, body |-> <<>>]
NoCall == [op |-> None]
IdleStats == [pc |-> "idle", wallet |-> <<>>, m |-> <<>>, s |-> <<>>,
              src |-> <<>>, out |-> NoStatsOut]
NoPage == [status |-> 0]
NoFetch == [pc |-> "idle"]

Init ==
    /\ call = NoCall
    /\ store = <<>>
    /\ stats = IdleStats
    /\ job = [o \in {"post", "stats"} |-> IdleJob]
    /\ writes = {}
    /\ resp = NoResp
    /\ runs = NoRuns
    /\ used = [req |-> 0, recalc |-> 0, fail |-> 0]
    /\ lb = NoPage
    /\ lbNext = NoPage
    /\ fetch = NoFetch

\* A write issued by o reaches the table: running batches other than o are
\* disturbed, and so is what the last response of the endpoint reported;
\* batch o notes whether the write changed the row's scores.
Disturb(o, changes) ==
    /\ job' = [p \in {"post", "stats"} |->
                 IF job[p].pc # "writing" THEN job[p]
                 ELSE IF p # o THEN [job[p] EXCEPT !.dirty = TRUE]
                 ELSE [job[p] EXCEPT !.changed = @ \/ changes]]
    /\ resp' = IF o # "post" THEN [resp EXCEPT !.quiet = FALSE] ELSE resp
    /\ runs' = IF o # "post" THEN NoRuns ELSE runs

Owners == {"post", "stats"}
Kinds == {"rankings", "scores"}

Pending(o) == {w \in writes : w.o = o}

(***************************************************************************)
(* GET /api/stats: persistence of freshly computed metrics                 *)
(***************************************************************************)
\* The request arrives, the transactions are fetched, the seven raw metrics
\* are computed; then const allUsers = await prisma.user.findMany(...): the
\* population is the stored rows plus the current metrics, and the scores
\* are computed from it.
StatsFindMany(wallet, m) ==
    /\ stats.pc = "idle"
    /\ used.req < MaxRequests
    /\ used' = [used EXCEPT !.req = @ + 1]
    /\ LET allUserMetrics == Append(AllMetrics(store), m)
       IN  stats' = [IdleStats EXCEPT
                        !.pc = "scored", !.wallet = wallet, !.m = m,
                        !.s = calculateComponentScores(m, allUserMetrics),
                        !.src = [m |-> m, pop |-> allUserMetrics]]
    /\ lb' = NoPage /\ lbNext' = NoPage
    /\ UNCHANGED <<call, fetch, store, job, writes, resp, runs>>

\* The same request when findMany throws: the catch block logs and the
\* handler goes on to answer.
StatsFindManyFails(wallet, m) ==
    /\ stats.pc = "idle"
    /\ used.req < MaxRequests
    /\ used.fail < MaxFailures
    /\ used' = [used EXCEPT !.req = @ + 1, !.fail = @ + 1]
    /\ stats' = [IdleStats EXCEPT !.pc = "respond", !.wallet = wallet, !.m = m]
    /\ lb' = NoPage /\ lbNext' = NoPage
    /\ UNCHANGED <<call, fetch, store, job, writes, resp, runs>>

\* await prisma.user.upsert(...)
StatsUpsert ==
    /\ stats.pc = "scored"
    /\ store' = Upsert(store, stats.wallet, stats.m, stats.s, stats.src)
    /\ stats' = [stats EXCEPT !.pc = "recalc"]
    /\ Disturb("stats", FALSE)
    /\ UNCHANGED <<call, fetch, writes, used, lb, lbNext>>

\* upsert throws: caught like a failing findMany.
StatsUpsertFails ==
    /\ stats.pc = "scored"
    /\ used.fail < MaxFailures
    /\ stats' = [stats EXCEPT !.pc = "respond"]
    /\ used' = [used EXCEPT !.fail = @ + 1]
    /\ UNCHANGED <<call, fetch, store, job, writes, resp, runs, lb, lbNext>>

\* recalculateAllRankings(): findMany, scores of every row, one update call
\* per row; with no rows it returns at once.
StatsRecalcStart ==
    /\ stats.pc = "recalc"
    /\ job["stats"].pc = "idle"
    /\ IF Len(store) = 0
       THEN /\ stats' = [stats EXCEPT !.pc = "respond"]
            /\ UNCHANGED <<job, writes>>
       ELSE \E order \in FindManyOrders(store) :
            /\ job' = [job EXCEPT !["stats"] =
                          [pc |-> "writing", n |-> Len(store),
                           order |-> BatchOrder(store, order), dirty |-> FALSE,
                           changed |-> FALSE]]
            /\ writes' = writes \cup BatchUpdates("stats", "rankings", store, order)
            /\ stats' = [stats EXCEPT !.pc = "recalcWait"]
    /\ UNCHANGED <<call, fetch, store, resp, runs, used, lb, lbNext>>

\* await Promise.all(updatePromises) has resolved, or a catch block was
\* taken: return NextResponse.json(stats).
StatsRespond ==
    /\ \/ stats.pc = "respond"
       \/ stats.pc = "recalcWait" /\ Pending("stats") = {}
    /\ stats' = [IdleStats EXCEPT !.out = [status |-> 200, body |-> stats.m]]
    /\ job' = [job EXCEPT !["stats"] = IdleJob]
    /\ UNCHANGED <<call, fetch, store, writes, resp, runs, used, lb, lbNext>>

(***************************************************************************)
(* POST /api/recalculate-rankings and POST /api/recalculate-scores         *)
(***************************************************************************)
ScoreColumns(st) == [i \in 1..Len(st) |-> st[i].s]

\* findMany, the early return on an empty table, the scores of every row
\* and one update call per row.
PostStart(kind) ==
    /\ job["post"].pc = "idle"
    /\ used.recalc < MaxRecalcs
    /\ used' = [used EXCEPT !.recalc = @ + 1]
    /\ lb' = NoPage /\ lbNext' = NoPage
    /\ IF Len(store) = 0
       THEN /\ resp' = [status |-> IF kind = "scores" THEN 404 ELSE 200,
                        count |-> -1, quiet |-> TRUE, changed |-> FALSE]
            /\ UNCHANGED <<job, writes>>
       ELSE \E order \in FindManyOrders(store) :
            /\ job' = [job EXCEPT !["post"] =
                          [pc |-> "writing", n |-> Len(store),
                           order |-> BatchOrder(store, order), dirty |-> FALSE,
                           changed |-> FALSE]]
            /\ writes' = writes \cup BatchUpdates("post", kind, store, order)
            /\ resp' = NoResp
    /\ UNCHANGED <<call, fetch, store, stats, runs>>

\* await Promise.all(updatePromises) resolves: the success response with
\* users.length (rankings) or updatedUsers.length (scores).
PostRespond ==
    /\ job["post"].pc = "writing"
    /\ Pending("post") = {}
    /\ resp' = [status |-> 200,
                count |-> job["post"].n, quiet |-> ~job["post"].dirty,
                changed |-> job["post"].changed]
    /\ runs' = IF job["post"].dirty THEN NoRuns
               ELSE [prev |-> runs.last,
                     last |-> [ok |-> TRUE, s |-> ScoreColumns(store),
                               order |-> job["post"].order,
                               changed |-> job["post"].changed]]
    /\ job' = [job EXCEPT !["post"] = IdleJob]
    /\ UNCHANGED <<call, fetch, store, stats, writes, used, lb, lbNext>>

(***************************************************************************)
(* The database executing the update calls of the batches                  *)
(***************************************************************************)
\* One update call is executed.  The calls of a batch were all issued
\* before Promise.all was awaited, so they run in any order.
DbUpdate(w) ==
    /\ w \in writes
    /\ store' = [store EXCEPT ![w.id] = UpdateScores(@, w.s, w.src)]
    /\ writes' = writes \ {w}
    /\ Disturb(w.o, store[w.id].s # w.s)
    /\ UNCHANGED <<call, fetch, stats, used, lb, lbNext>>

\* One update call of a running batch is rejected.  Promise.all rejects:
\* the endpoint answers 500, recalculateAllRankings logs and returns.  The
\* other calls of the batch stay issued and are executed later.
DbUpdateFails(w) ==
    /\ w \in writes
    /\ w.o \in Owners
    /\ used.fail < MaxFailures
    /\ used' = [used EXCEPT !.fail = @ + 1]
    /\ writes' = {[u EXCEPT !.o = IF u.o = w.o THEN "detached" ELSE u.o]
                    : u \in writes \ {w}}
    /\ job' = [job EXCEPT ![w.o] = IdleJob]
    /\ IF w.o = "post"
       THEN /\ resp' = [status |-> 500, count |-> -1, quiet |-> FALSE,
                        changed |-> FALSE]
            /\ runs' = NoRuns
            /\ UNCHANGED stats
       ELSE /\ stats' = [stats EXCEPT !.pc = "respond"]
            /\ UNCHANGED <<resp, runs>>
    /\ UNCHANGED <<call, fetch, store, lb, lbNext>>

Next ==
    \/ \E wallet \in Addresses, m \in RefreshMetrics : StatsFindMany(wallet, m)
    \/ \E wallet \in Addresses, m \in RefreshMetrics : StatsFindManyFails(wallet, m)
    \/ StatsUpsert
    \/ StatsUpsertFails
    \/ StatsRecalcStart
    \/ StatsRespond
    \/ \E kind \in Kinds : PostStart(kind)
    \/ PostRespond
    \/ \E w \in writes : DbUpdate(w)
    \/ \E w \in writes : DbUpdateFails(w)

Spec == Init /\ [][Next]_vars

(***************************************************************************)
(* Calls of the pure scoring functions                                     *)
(***************************************************************************)
\* Each behaviour makes one call: the functions keep no state.
NormalizeCall(a, b, allValues, useLogTransform) ==
    /\ call.op = None
    /\ call' = [op |-> "normalize", a |-> a, b |-> b, allValues |-> allValues,
                useLogTransform |-> useLogTransform,
                ra |-> normalizeToPercentile(a, allValues, useLogTransform),
                rb |-> normalizeToPercentile(b, allValues, useLogTransform)]
    /\ UNCHANGED <<fetch, store, stats, job, writes, resp, runs, used, lb,
                   lbNext>>

ComposeCall(userMetrics, allUsersMetrics) ==
    /\ call.op = None
    /\ call' = [op |-> "compose", userMetrics |-> userMetrics,
                allUsersMetrics |-> allUsersMetrics,
                scores |-> calculateComponentScores(userMetrics, allUsersMetrics)]
    /\ UNCHANGED <<fetch, store, stats, job, writes, resp, runs, used, lb,
                   lbNext>>

\* Populations of three distinct values, one of them far above the others.
SpreadInputs ==
    { <<0, 10, 1000000>>, <<10, 0, 1000000>>, <<1000000, 10, 0>>,
      <<0, 1, 3>>, <<1, 2, 1000>> }

\* Every member of a population normalized against it, without and with
\* the log transform.
SpreadCall(allValues) ==
    /\ call.op = None
    /\ call' = [op |-> "spread", allValues |-> allValues,
                linear |-> [i \in 1..Len(allValues) |->
                              normalizeToPercentile(allValues[i], allValues, FALSE)],
                log |-> [i \in 1..Len(allValues) |->
                              normalizeToPercentile(allValues[i], allValues, TRUE)]]
    /\ UNCHANGED <<fetch, store, stats, job, writes, resp, runs, used, lb,
                   lbNext>>

NextScoring ==
    \/ \E allValues \in SpreadInputs : SpreadCall(allValues)
    \/ \E a \in Values, b \in Values, allValues \in SeqUpTo(Values, MaxPop),
          useLogTransform \in BOOLEAN :
            NormalizeCall(a, b, allValues, useLogTransform)
    \/ \E userMetrics \in MetricInputs,
          allUsersMetrics \in SeqUpTo(MetricInputs, MaxPop) :
            ComposeCall(userMetrics, allUsersMetrics)

SpecScoring == Init /\ [][NextScoring]_vars

(***************************************************************************)
(* Properties of the scoring functions (SpecScoring)                       *)
(***************************************************************************)
InRange(x) == x >= 0 /\ x <= 10000

\* C1: calculateComponentScores returns seven component scores in [0,100],
\* day1BonusScore being 100 for a day-1 user and 0 otherwise, and a
\* totalScore in [0,100] equal to the weighted sum of the seven component
\* scores rounded to two decimals.
C1_ScoresInRangeAndWeighted ==
    call.op = "compose" =>
        /\ \A f \in ComponentFields : InRange(call.scores[f])
        /\ call.scores.day1BonusScore =
               (IF call.userMetrics.isDay1User THEN 10000 ELSE 0)
        /\ InRange(call.scores.totalScore)
        /\ call.scores.totalScore
             = RoundDiv(call.scores.volumeScore * 25 + call.scores.gasScore * 20
                        + call.scores.transactionScore * 15
                        + call.scores.nftScore * 15
                        + call.scores.daysActiveScore * 10
                        + call.scores.streakScore * 10
                        + call.scores.day1BonusScore * 5, 100)

\* A wallet scored against a population of three that holds it, with a total
\* strictly between 0 and 100 that needed rounding.
C1_Witness ==
    /\ call.op = "compose"
    /\ Len(call.allUsersMetrics) = 3
    /\ \E i \in 1..3 : call.allUsersMetrics[i] = call.userMetrics
    /\ call.scores.totalScore > 0 /\ call.scores.totalScore < 10000
    /\ call.scores.totalScore % 100 # 0
    /\ call.scores.day1BonusScore = 10000

Tr(v, useLogTransform) == IF useLogTransform THEN Log1p(v) ELSE v

\* Number of population values strictly below v, after the transform.
Below(v, allValues, useLogTransform) ==
    Cardinality({i \in 1..Len(allValues) :
        Tr(allValues[i], useLogTransform) < Tr(v, useLogTransform)})

IsLargestMember(v, allValues) ==
    /\ \E i \in 1..Len(allValues) : allValues[i] = v
    /\ \A i \in 1..Len(allValues) : allValues[i] <= v

MaxPage == 2
MaxPageSize == 2

validSortFields ==
    {"totalScore", "totalVolume", "gasSpentMON", "txCount", "nftBagValue",
     "daysActive", "longestStreak"}
\* A direction list that lets an unknown direction through.
validSortOrders_Lax == {"asc", "desc", "down"}

validSortOrders == {"asc", "desc"}

\* Query strings the requests carry: the valid ones and one invalid each.
SortByInputs == validSortFields \cup {"rank"}
SortOrderInputs == validSortOrders \cup {"down"}
SearchInputs == { <<>>, <<"A">>, <<"a", "1">>, <<"2">>, <<"b", "1">> }

\* Case folding of the database's case-insensitive comparison.
LowerChar(c) == IF c = "A" THEN "a" ELSE IF c = "B" THEN "b" ELSE c
Lower(str) == [i \in 1..Len(str) |-> LowerChar(str[i])]

\* walletAddress: { contains: search, mode: "insensitive" }
ContainsInsensitive(str, search) ==
    \E k \in 0..(Len(str) - Len(search)) :
        SubSeq(Lower(str), k + 1, k + Len(search)) = Lower(search)

\* A where clause that compares case-sensitively (mode left out).
Matches_CaseSensitive(row, search) ==
    \/ search = <<>>
    \/ \E k \in 0..(Len(row.walletAddress) - Len(search)) :
          SubSeq(row.walletAddress, k + 1, k + Len(search)) = search

\* The where clause: no condition for an empty search string.
Matches(row, search) ==
    search = <<>> \/ ContainsInsensitive(row.walletAddress, search)

Matching(st, search) == {i \in 1..Len(st) : Matches(st[i], search)}

SortKey(row, sortBy) ==
    IF sortBy = "totalScore" THEN row.s.totalScore ELSE row.m[sortBy]

\* An orderBy that ignores the requested direction.
InOrder_AlwaysDesc(x, y, sortOrder) == x >= y

InOrder(x, y, sortOrder) == IF sortOrder = "asc" THEN x <= y ELSE x >= y

\* findMany({ where, orderBy: { [sortBy]: sortOrder } }) before skip/take:
\* the matching rows sorted by the one column; rows that tie on it come in
\* an order of the database's choosing.
OrderedRows(st, search, sortBy, sortOrder) ==
    LET ids == Matching(st, search)
        k == Cardinality(ids)
    IN  { f \in [1..k -> ids] :
            /\ \A i, j \in 1..k : i # j => f[i] # f[j]
            /\ \A i \in 1..(k - 1) :
                 InOrder(SortKey(st[f[i]], sortBy), SortKey(st[f[i + 1]], sortBy),
                         sortOrder) }

\* skip, take
Page(rows, skip, take) ==
    SubSeq(rows, skip + 1, IF skip + take < Len(rows) THEN skip + take ELSE Len(rows))

\* Math.floor in place of Math.ceil.
CeilDiv_Floor(n, d) == n \div d

\* Math.ceil(n / d)
CeilDiv(n, d) == (n + d - 1) \div d

\* A position number that restarts on every page (index + 1).
LeaderboardResponse_PageRelative(st, rows, page, pageSize, search, sortBy, sortOrder) ==
    LET skip == (page - 1) * pageSize
        users == Page(rows, skip, pageSize)
        totalUsers == Cardinality(Matching(st, search))
        totalPages == CeilDiv(totalUsers, pageSize)
    IN  [status |-> 200, queries |-> 2,
         q |-> [page |-> page, pageSize |-> pageSize, search |-> search,
                sortBy |-> sortBy, sortOrder |-> sortOrder],
         leaderboard |->
            [index \in 1..Len(users) |->
                [walletAddress |-> st[users[index]].walletAddress,
                 userNumber |-> index,
                 totalScore |-> st[users[index]].s.totalScore,
                 metrics |-> st[users[index]].m,
                 scores |-> st[users[index]].s]],
         pagination |->
            [currentPage |-> page, pageSize |-> pageSize,
             totalUsers |-> totalUsers, totalPages |-> totalPages,
             hasNextPage |-> page < totalPages, hasPreviousPage |-> page > 1]]

\* The 200 response built from the count and from the rows findMany
\* returned for the query (rows: the sorted matching rows before skip/take).
LeaderboardResponse(st, rows, page, pageSize, search, sortBy, sortOrder) ==
    LET skip == (page - 1) * pageSize
        users == Page(rows, skip, pageSize)
        totalUsers == Cardinality(Matching(st, search))
        totalPages == CeilDiv(totalUsers, pageSize)
    IN  [status |-> 200, queries |-> 2,
         q |-> [page |-> page, pageSize |-> pageSize, search |-> search,
                sortBy |-> sortBy, sortOrder |-> sortOrder],
         leaderboard |->
            [index \in 1..Len(users) |->
                [walletAddress |-> st[users[index]].walletAddress,
                 userNumber |-> skip + (index - 1) + 1,
                 totalScore |-> st[users[index]].s.totalScore,
                 metrics |-> st[users[index]].m,
                 scores |-> st[users[index]].s]],
         pagination |->
            [currentPage |-> page, pageSize |-> pageSize,
             totalUsers |-> totalUsers, totalPages |-> totalPages,
             hasNextPage |-> page < totalPages, hasPreviousPage |-> page > 1]]

BadRequest(page, pageSize, search, sortBy, sortOrder) ==
    [status |-> 400, queries |-> 0,
     q |-> [page |-> page, pageSize |-> pageSize, search |-> search,
            sortBy |-> sortBy, sortOrder |-> sortOrder]]

\* The handler for one request; r is where the response goes.
LeaderboardHandler(r, page, pageSize, search, sortBy, sortOrder) ==
    IF sortBy \notin validSortFields \/ sortOrder \notin validSortOrders
    THEN r = BadRequest(page, pageSize, search, sortBy, sortOrder)
    ELSE \E rows \in OrderedRows(store, search, sortBy, sortOrder) :
            r = LeaderboardResponse(store, rows, page, pageSize, search,
                                    sortBy, sortOrder)

LeaderboardGET(page, pageSize, search, sortBy, sortOrder) ==
    /\ lb.status = 0
    /\ LeaderboardHandler(lb', page, pageSize, search, sortBy, sortOrder)
    /\ UNCHANGED <<call, fetch, store, stats, job, writes, resp, runs, used, lbNext>>

\* The client asks for the following page of the query it just made.
LeaderboardNextPage ==
    /\ lb.status = 200
    /\ lbNext.status = 0
    /\ LeaderboardHandler(lbNext', lb.q.page + 1, lb.q.pageSize, lb.q.search,
                          lb.q.sortBy, lb.q.sortOrder)
    /\ UNCHANGED <<call, fetch, store, stats, job, writes, resp, runs, used, lb>>

(***************************************************************************)
(* GET /api/stats run to completion with no failure and no other request   *)
(* in between: upsert with the scores against the stored population plus   *)
(* the new metrics, then recalculateAllRankings.                           *)
(***************************************************************************)
ApplyUpdates(st, updates) ==
    [i \in 1..Len(st) |->
        IF \E w \in updates : w.id = i
        THEN LET w == CHOOSE w \in updates : w.id = i
             IN  UpdateScores(st[i], w.s, w.src)
        ELSE st[i]]

StatsHandled(st, wallet, m) ==
    LET allUserMetrics == Append(AllMetrics(st), m)
        s == calculateComponentScores(m, allUserMetrics)
        st1 == Upsert(st, wallet, m, s, [m |-> m, pop |-> allUserMetrics])
    IN  ApplyUpdates(st1,
            BatchUpdates("stats", "rankings", st1, [i \in 1..Len(st1) |-> i]))

\* Metrics of the requests that fill the table the leaderboard reads.
LeaderboardMetrics ==
    { Metrics(0, 0, 0, 0, FALSE, 0, 0),
      Metrics(1, 1, 1, 0, TRUE, 1, 1),
      Metrics(3, 2, 3, 2, FALSE, 1, 2) }

StatsGET(wallet, m) ==
    /\ lb.status = 0
    /\ store' = StatsHandled(store, wallet, m)
    /\ store' # store
    /\ UNCHANGED <<call, fetch, stats, job, writes, resp, runs, used, lb, lbNext>>

NextLeaderboard ==
    \/ \E wallet \in Addresses, m \in LeaderboardMetrics : StatsGET(wallet, m)
    \/ \E page \in 1..MaxPage, pageSize \in 1..MaxPageSize,
          search \in SearchInputs, sortBy \in SortByInputs,
          sortOrder \in SortOrderInputs :
            LeaderboardGET(page, pageSize, search, sortBy, sortOrder)
    \/ LeaderboardNextPage

SpecLeaderboard == Init /\ [][NextLeaderboard]_vars

(***************************************************************************)
(* Properties of GET /api/leaderboard (SpecLeaderboard).  The table is     *)
(* not written between a query and the response it is compared with.       *)
(***************************************************************************)
EntryKey(e, sortBy) == IF sortBy = "totalScore" THEN e.totalScore ELSE e.metrics[sortBy]

Before(x, y, sortOrder) == IF sortOrder = "asc" THEN x < y ELSE x > y
NotAfter(x, y, sortOrder) == IF sortOrder = "asc" THEN x <= y ELSE x >= y

\* C4: every returned page is ordered by the requested field in the
\* requested direction, and the last entry of page k is ordered correctly
\* relative to the first entry of page k+1 of the same query.
C4_PagesOrdered ==
    /\ lb.status = 200 =>
         \A i \in 1..(Len(lb.leaderboard) - 1) :
            NotAfter(EntryKey(lb.leaderboard[i], lb.q.sortBy),
                     EntryKey(lb.leaderboard[i + 1], lb.q.sortBy), lb.q.sortOrder)
    /\ (lb.status = 200 /\ lbNext.status = 200
          /\ Len(lb.leaderboard) > 0 /\ Len(lbNext.leaderboard) > 0) =>
         NotAfter(EntryKey(lb.leaderboard[Len(lb.leaderboard)], lb.q.sortBy),
                  EntryKey(lbNext.leaderboard[1], lb.q.sortBy), lb.q.sortOrder)

\* Two pages of an ascending query by txCount over three wallets: a full
\* page of two distinct values, then the third wallet on the next page.
C4_Witness ==
    /\ lb.status = 200 /\ lbNext.status = 200
    /\ lb.q.sortBy = "txCount" /\ lb.q.sortOrder = "asc" /\ lb.q.page = 1
    /\ Len(lb.leaderboard) = 2 /\ Len(lbNext.leaderboard) = 1
    /\ lb.leaderboard[1].metrics.txCount < lb.leaderboard[2].metrics.txCount
    /\ lb.leaderboard[2].metrics.txCount < lbNext.leaderboard[1].metrics.txCount

\* Number of matching rows whose sort key comes strictly before / not after
\* the key k in the direction of the query.
MatchesQuery(i, q) ==
    q.search = <<>> \/ ContainsInsensitive(store[i].walletAddress, q.search)

RowsBefore(k, q) ==
    Cardinality({i \in 1..Len(store) :
        /\ MatchesQuery(i, q)
        /\ Before(SortKey(store[i], q.sortBy), k, q.sortOrder)})
RowsNotAfter(k, q) ==
    Cardinality({i \in 1..Len(store) :
        /\ MatchesQuery(i, q)
        /\ NotAfter(SortKey(store[i], q.sortBy), k, q.sortOrder)})

FilteredCount(q) == Cardinality({i \in 1..Len(store) : MatchesQuery(i, q)})

\* C6: the response holds the slice of at most pageSize entries starting at
\* offset (page-1)*pageSize, totalUsers is the size of the filtered set,
\* totalPages = ceil(totalUsers / pageSize), hasPreviousPage <=> page > 1
\* and hasNextPage <=> a matching entry lies after the returned slice.
C6_Pagination ==
    lb.status = 200 =>
        LET total == FilteredCount(lb.q)
            skip == (lb.q.page - 1) * lb.q.pageSize
            n == Len(lb.leaderboard)
            pg == lb.pagination
        IN  /\ n <= lb.q.pageSize
            /\ n = (IF total - skip <= 0 THEN 0
                    ELSE IF total - skip < lb.q.pageSize THEN total - skip
                    ELSE lb.q.pageSize)
            /\ \A i, j \in 1..n :
                 i # j => lb.leaderboard[i].walletAddress
                            # lb.leaderboard[j].walletAddress
            /\ pg.totalUsers = total
            /\ pg.totalPages * lb.q.pageSize >= total
            /\ (pg.totalPages - 1) * lb.q.pageSize < total \/ (total = 0 /\ pg.totalPages = 0)
            /\ pg.totalPages >= 0
            /\ pg.hasPreviousPage <=> lb.q.page > 1
            /\ pg.hasNextPage <=> skip + n < total

\* Page 1 of size 2 of three matching wallets: two pages, a next page and
\* no previous page.
C6_Witness ==
    /\ lb.status = 200
    /\ lb.q.page = 1 /\ lb.q.pageSize = 2
    /\ lb.pagination.totalUsers = 3
    /\ lb.pagination.totalPages = 2
    /\ lb.pagination.hasNextPage /\ ~lb.pagination.hasPreviousPage
    /\ Len(lb.leaderboard) = 2

\* C7: with a search string, only wallets whose address contains it, case
\* ignored, are returned, and totalUsers counts the filtered set.
C7_SearchFilter ==
    (lb.status = 200 /\ lb.q.search # <<>>) =>
        /\ \A i \in 1..Len(lb.leaderboard) :
              /\ ContainsInsensitive(lb.leaderboard[i].walletAddress, lb.q.search)
              /\ \E r \in 1..Len(store) :
                    store[r].walletAddress = lb.leaderboard[i].walletAddress
        /\ lb.pagination.totalUsers =
              Cardinality({r \in 1..Len(store) :
                  ContainsInsensitive(store[r].walletAddress, lb.q.search)})
        /\ (lbNext.status = 200 =>
              \A i \in 1..Len(lbNext.leaderboard) :
                 ContainsInsensitive(lbNext.leaderboard[i].walletAddress, lb.q.search))

\* The search "A" over three wallets returns "a1" and "A1" and counts 2.
C7_Witness ==
    /\ lb.status = 200
    /\ lb.q.search = <<"A">>
    /\ Len(store) = 3
    /\ lb.pagination.totalUsers = 2
    /\ Len(lb.leaderboard) = 2
    /\ \E i \in 1..2 : lb.leaderboard[i].walletAddress = <<"a", "1">>
    /\ \E i \in 1..2 : lb.leaderboard[i].walletAddress = <<"A", "1">>

(***************************************************************************)
(* Properties of the recalculation (Spec)                                  *)
(***************************************************************************)
\* C8 as claimed: after a recalculation answered with success, no other
\* writer having written during the batch or since, every row's scores are
\* calculateComponentScores(its metrics, the metrics of all rows), and the
\* response reports the number of rows updated.
C8_AsClaimed ==
    (resp.status = 200 /\ resp.quiet) =>
        /\ \A i \in 1..Len(store) :
              store[i].s = calculateComponentScores(store[i].m, AllMetrics(store))
        /\ resp.count = Len(store)

\* C8, amended: the same over a table that holds at least one row; over an
\* empty table the success response of recalculate-rankings carries a
\* message and no count (recalculate-scores answers 404).
C8_RecalculationRestoresScores ==
    (resp.status = 200 /\ resp.quiet) =>
        IF Len(store) = 0
        THEN resp.count = -1
        ELSE /\ \A i \in 1..Len(store) :
                   store[i].s
                     = calculateComponentScores(store[i].m, AllMetrics(store))
             /\ resp.count = Len(store)

\* A successful undisturbed recalculation over two wallets that replaced
\* scores left stale by an earlier failure.
C8_Witness ==
    /\ resp.status = 200 /\ resp.quiet /\ resp.changed
    /\ resp.count = 2
    /\ used.fail = 1
    /\ store[1].s # store[2].s

TotalOf(run, walletAddress) ==
    LET i == CHOOSE i \in 1..Len(store) : store[i].walletAddress = walletAddress
    IN  run.s[i].totalScore

\* C9: of two successive undisturbed recalculations with no row written in
\* between, the second changes no score: it leaves every row's component
\* scores and totalScore as the first left them, and the order of the
\* wallets by totalScore is the same (wallets of equal totalScore may swap:
\* findMany fixes no order among them).
C9_RecalculationIdempotent ==
    (runs.prev.ok /\ runs.last.ok) =>
        /\ runs.last.s = runs.prev.s
        /\ ~runs.last.changed
        /\ Len(runs.last.order) = Len(runs.prev.order)
        /\ \A k \in 1..Len(runs.prev.order) :
              TotalOf(runs.prev, runs.prev.order[k])
                = TotalOf(runs.last, runs.last.order[k])
        /\ \A k \in 1..(Len(runs.last.order) - 1) :
              TotalOf(runs.last, runs.last.order[k])
                >= TotalOf(runs.last, runs.last.order[k + 1])

\* Two successive undisturbed recalculations over two wallets of different
\* totalScore, the first of which changed stored scores.
C9_Witness ==
    /\ runs.prev.ok /\ runs.last.ok
    /\ runs.prev.changed
    /\ Len(runs.last.s) = 2
    /\ runs.last.s[1].totalScore # runs.last.s[2].totalScore

\* C10: in every state, also during a batch and after a batch some of
\* whose updates failed, the eight score columns of every row are the
\* result of one single score computation.
C10_ScoresFromOneComputation ==
    \A i \in 1..Len(store) :
        /\ store[i].s = calculateComponentScores(store[i].src.m, store[i].src.pop)
        /\ store[i].s.totalScore = RoundDiv(WeightedSum(store[i].s), 100)

\* A batch of the endpoint failed after one of its updates was executed:
\* one row holds scores of the new computation, the other scores of an
\* older one, and an update of the batch is still to be executed.
C10_Witness ==
    /\ resp.status = 500
    /\ Len(store) = 2
    /\ store[1].src.pop # store[2].src.pop
    /\ \E w \in writes : w.o = "detached"

(***************************************************************************)
(* GET /api/stats: metrics computed from the fetched transactions          *)
(*                                                                         *)
(* A transaction carries its hash, block number, timestamp in seconds,     *)
(* value and gas cost (gas x gasPrice); value and gas cost are whole       *)
(* numbers of an arbitrary unit, the division by 1e18 is not modelled.     *)
(* Calendar dates are UTC day numbers (timestamp \div 86400).              *)
(***************************************************************************)
launchDate == 1739923200

DaySeconds == 86400

Tx(hash, blockNumber, timeStamp, value, gas) ==
    [hash |-> hash, blockNumber |-> blockNumber, timeStamp |-> timeStamp,
     value |-> value, gas |-> gas]

DayOf(timeStamp) == timeStamp \div DaySeconds

FilterSeq(s, Keep(_)) ==
    LET F[i \in 0..Len(s)] ==
            IF i = 0 THEN <<>>
            ELSE IF Keep(s[i]) THEN Append(F[i - 1], s[i]) ELSE F[i - 1]
    IN  F[Len(s)]

SumSeq(s, Val(_)) ==
    LET F[i \in 0..Len(s)] == IF i = 0 THEN 0 ELSE F[i - 1] + Val(s[i])
    IN  F[Len(s)]

AfterLaunch(tx) == tx.timeStamp >= launchDate

validTransactions(transactions) == FilterSeq(transactions, AfterLaunch)

\* A gas sum that forgets to skip the transactions before the launch.
calculateGasSpent_Unfiltered(transactions) ==
    LET Cost(tx) == tx.gas IN SumSeq(transactions, Cost)

calculateGasSpent(transactions) ==
    LET Cost(tx) == IF tx.timeStamp < launchDate THEN 0 ELSE tx.gas
    IN  SumSeq(transactions, Cost)

calculateTotalVolume(transactions) ==
    LET Val(tx) == IF tx.timeStamp < launchDate THEN 0 ELSE tx.value
    IN  SumSeq(transactions, Val)

\* The distinct dates of the timestamps at or after the launch.
uniqueDays(timeStamps) ==
    {DayOf(timeStamps[i]) : i \in {j \in 1..Len(timeStamps) :
                                      timeStamps[j] >= launchDate}}

RECURSIVE SortedDays(_)
SortedDays(days) ==
    IF days = {} THEN <<>>
    ELSE LET d == CHOOSE d \in days : \A e \in days : d <= e
         IN  <<d>> \o SortedDays(days \ {d})

\* A streak scan that omits the comparison after the loop.
calculateLongestStreak_NoFinalCheck(timeStamps) ==
    LET sortedDays == SortedDays(uniqueDays(timeStamps))
        Loop[i \in 1..Len(sortedDays)] ==
            IF i = 1 THEN <<1, 1>>
            ELSE LET p == Loop[i - 1] IN
                 IF sortedDays[i] - sortedDays[i - 1] = 1
                 THEN <<p[1] + 1, p[2]>>
                 ELSE <<1, IF p[1] > p[2] THEN p[1] ELSE p[2]>>
    IN  IF Len(timeStamps) = 0 THEN 0
        ELSE IF Len(sortedDays) = 0 THEN 0
        ELSE IF Len(sortedDays) = 1 THEN 1
        ELSE Loop[Len(sortedDays)][2]

calculateLongestStreak(timeStamps) ==
    LET sortedDays == SortedDays(uniqueDays(timeStamps))
        \* loop state after index i: <<currentStreak, longestStreak>>
        Loop[i \in 1..Len(sortedDays)] ==
            IF i = 1 THEN <<1, 1>>
            ELSE LET p == Loop[i - 1] IN
                 IF sortedDays[i] - sortedDays[i - 1] = 1
                 THEN <<p[1] + 1, p[2]>>
                 ELSE <<1, IF p[1] > p[2] THEN p[1] ELSE p[2]>>
    IN  IF Len(timeStamps) = 0 THEN 0
        ELSE IF Len(sortedDays) = 0 THEN 0
        ELSE IF Len(sortedDays) = 1 THEN 1
        ELSE LET e == Loop[Len(sortedDays)]
             IN  IF e[1] > e[2] THEN e[1] ELSE e[2]

\* The host's local time zone, as far as the handler can see it: the UTC
\* date on which a local day is not 24 hours long (a daylight-saving
\* change) and by how many seconds it differs.
TimeZone(at, delta) == [at |-> at, delta |-> delta]

UTC == TimeZone(0, 0)

\* currentDate.setDate(currentDate.getDate() + 1): one local day later.
NextLocalDay(tz, t) ==
    t + DaySeconds + (IF DayOf(t) = tz.at THEN tz.delta ELSE 0)

RECURSIVE FillDates(_, _, _)
\* while (currentDate <= endDate): the UTC dates of the instants visited.
FillDates(tz, currentDate, endDate) ==
    IF currentDate > endDate THEN <<>>
    ELSE <<DayOf(currentDate)>>
            \o FillDates(tz, NextLocalDay(tz, currentDate), endDate)

generateTransactionHistoryIn(tz, transactions) ==
    LET kept == validTransactions(transactions)
        dates == {DayOf(kept[i].timeStamp) : i \in 1..Len(kept)}
        OnDate(d) == LET On(tx) == DayOf(tx.timeStamp) = d IN FilterSeq(kept, On)
        Value(tx) == tx.value
        Gas(tx) == tx.gas
    IN  IF Len(transactions) = 0 \/ dates = {} THEN <<>>
        ELSE LET startDate == CHOOSE d \in dates : \A e \in dates : d <= e
                 endDate == CHOOSE d \in dates : \A e \in dates : d >= e
                 filled == FillDates(tz, startDate * DaySeconds,
                                     endDate * DaySeconds)
             IN  [k \in 1..Len(filled) |->
                    LET d == filled[k] IN
                    [date |-> d, transactions |-> Len(OnDate(d)),
                     volume |-> SumSeq(OnDate(d), Value),
                     gasSpent |-> SumSeq(OnDate(d), Gas)]]

\* On a host whose local days are all 24 hours long.
generateTransactionHistory(transactions) ==
    generateTransactionHistoryIn(UTC, transactions)

calculateDaysActive(transactionHistory) ==
    Cardinality({k \in 1..Len(transactionHistory) :
                    transactionHistory[k].transactions > 0})

isDay1(timeStamp) == DayOf(timeStamp) = DayOf(launchDate)

\* The WalletStats object and daysActive the handler derives from the
\* fetched transactions and the NFT bag value.
WalletStats(transactions, nftBagValue) ==
    LET valid == validTransactions(transactions)
        transactionHistory == generateTransactionHistory(valid)
    IN  [txCount |-> Len(valid),
         gasSpentMON |-> calculateGasSpent(transactions),
         totalVolume |-> calculateTotalVolume(transactions),
         nftBagValue |-> nftBagValue,
         isDay1User |-> \E i \in 1..Len(valid) : isDay1(valid[i].timeStamp),
         longestStreak |->
            calculateLongestStreak([i \in 1..Len(valid) |-> valid[i].timeStamp]),
         transactionHistory |-> transactionHistory,
         daysActive |-> calculateDaysActive(transactionHistory)]

MetricsOf(ws) ==
    Metrics(ws.txCount, ws.gasSpentMON, ws.totalVolume, ws.nftBagValue,
            ws.isDay1User, ws.longestStreak, ws.daysActive)

\* The body of the success response: the stats object, without daysActive.
ResponseBody(ws) ==
    [txCount |-> ws.txCount, gasSpentMON |-> ws.gasSpentMON,
     totalVolume |-> ws.totalVolume, nftBagValue |-> ws.nftBagValue,
     isDay1User |-> ws.isDay1User, longestStreak |-> ws.longestStreak,
     transactionHistory |-> ws.transactionHistory]

(***************************************************************************)
(* GET /api/stats: fetching the transactions page by page                  *)
(***************************************************************************)
\* Entries per page: stands for offset=10000 of the txlist query.
PageLimit == 2

maxRetries == 3

maxBatches == 100

\* What the explorer holds for a wallet, in ascending block order.
UpstreamInputs ==
    { <<>>,
      << Tx("t1", 1, launchDate - 1, 2, 1) >>,
      << Tx("t1", 1, launchDate - 1, 2, 1), Tx("t2", 2, launchDate, 1, 1) >>,
      << Tx("t2", 2, launchDate, 1, 1),
         Tx("t3", 3, launchDate + DaySeconds, 1, 1),
         Tx("t4", 4, launchDate + 3 * DaySeconds, 1, 0) >>,
      << Tx("t2", 2, launchDate, 1, 1),
         Tx("t3", 3, launchDate + DaySeconds, 1, 1),
         Tx("t5", 3, launchDate + DaySeconds, 2, 1) >> }

NftInputs == {0, 2}

\* txlist with startblock, sort=asc, page=1, offset=PageLimit.
EtherscanPage(up, startBlock) ==
    LET From(tx) == tx.blockNumber >= startBlock
        rest == FilterSeq(up, From)
    IN  SubSeq(rest, 1, IF Len(rest) < PageLimit THEN Len(rest) ELSE PageLimit)

NoOut == [status |-> 0]

\* A wait of one second before every retry.
backoffDelay_Constant(attempt) == 1000

\* Milliseconds to wait after a failed attempt before the next one.
backoffDelay(attempt) ==
    LET doubled == 1000 * 2 ^ (attempt - 1)
    IN  IF doubled < 5000 THEN doubled ELSE 5000

\* The request passed the address validation and enters the loop of
\* fetchTransactions: the first attempt for the first page is in flight.
FetchStart(wallet, up, nftBagValue) ==
    /\ fetch.pc \in {"idle", "done"}
    /\ used.req < MaxRequests
    /\ used' = [used EXCEPT !.req = @ + 1]
    /\ fetch' = [pc |-> "attempt", wallet |-> wallet, up |-> up,
                 nftBagValue |-> nftBagValue, allTransactions |-> <<>>,
                 startBlock |-> 0, batchCount |-> 1, attempt |-> 1,
                 delay |-> 0, noData |-> FALSE,
                 aborted |-> FALSE, exhausted |-> FALSE, dbError |-> FALSE,
                 before |-> store, out |-> NoOut]
    /\ UNCHANGED <<call, store, stats, job, writes, resp, runs, lb, lbNext>>

\* fetchTransactionsBatch returns a page and the loop body of
\* fetchTransactions runs.  The explorer answers a query matching no
\* transaction with status "0" and the message "No transactions found",
\* which the batch turns into an empty page at once.
FetchPageReturns ==
    /\ fetch.pc = "attempt"
    /\ LET batchTransactions == EtherscanPage(fetch.up, fetch.startBlock)
           n == Len(batchTransactions)
       IN  IF n = 0
           THEN fetch' = [fetch EXCEPT !.pc = "fetched", !.noData = TRUE]
           ELSE IF n < PageLimit \/ fetch.batchCount + 1 > maxBatches
           THEN fetch' = [fetch EXCEPT
                    !.pc = "fetched",
                    !.allTransactions = @ \o batchTransactions]
           ELSE fetch' = [fetch EXCEPT
                    !.allTransactions = @ \o batchTransactions,
                    !.startBlock = batchTransactions[n].blockNumber + 1,
                    !.batchCount = @ + 1,
                    !.attempt = 1,
                    !.delay = 0]
    /\ UNCHANGED <<call, store, stats, job, writes, resp, runs, used, lb, lbNext>>

\* An attempt fails (network error, non-OK status, error status).  Below
\* the ceiling the batch waits and tries again; at the ceiling it throws,
\* and the catch block of fetchTransactions breaks out of the loop with the
\* pages it has.
FetchAttemptFails ==
    /\ fetch.pc = "attempt"
    /\ IF fetch.attempt = maxRetries
       THEN fetch' = [fetch EXCEPT !.pc = "fetched", !.exhausted = TRUE]
       ELSE fetch' = [fetch EXCEPT !.pc = "backoff",
                                   !.delay = backoffDelay(fetch.attempt)]
    /\ UNCHANGED <<call, store, stats, job, writes, resp, runs, used, lb, lbNext>>

\* The backoff delay is over: the next attempt starts, unless the signal
\* is aborted by now (the error is rethrown and the loop left).
FetchBackoffEnds ==
    /\ fetch.pc = "backoff"
    /\ IF fetch.aborted
       THEN fetch' = [fetch EXCEPT !.pc = "fetched"]
       ELSE fetch' = [fetch EXCEPT !.pc = "attempt", !.attempt = @ + 1]
    /\ UNCHANGED <<call, store, stats, job, writes, resp, runs, used, lb, lbNext>>

\* The client's abort signal fires.  A fetch in flight rejects, the batch
\* rethrows without retrying and fetchTransactions leaves the loop with the
\* pages it has; during a backoff the timer runs on.
FetchAbort ==
    /\ fetch.pc \in {"attempt", "backoff"}
    /\ ~fetch.aborted
    /\ fetch' = [fetch EXCEPT
                    !.aborted = TRUE,
                    !.pc = IF fetch.pc = "attempt" THEN "fetched" ELSE "backoff"]
    /\ UNCHANGED <<call, store, stats, job, writes, resp, runs, used, lb, lbNext>>

\* A handler that lets a database error reach the outer catch block.
StatsResponse_DbErrorFatal(transactions, nftBagValue, dbError) ==
    IF Len(transactions) = 0 THEN [status |-> 404]
    ELSE IF dbError THEN [status |-> 500]
    ELSE [status |-> 200,
          body |-> ResponseBody(WalletStats(transactions, nftBagValue))]

\* What the handler answers once fetchTransactions has returned: 404 for
\* an empty list, else the stats, whether or not the try block around the
\* database calls ended in its catch block.
StatsResponse(transactions, nftBagValue, dbError) ==
    IF Len(transactions) = 0 THEN [status |-> 404]
    ELSE [status |-> 200,
          body |-> ResponseBody(WalletStats(transactions, nftBagValue))]

\* fetchTransactions returned an empty list.
FetchNotFound ==
    /\ fetch.pc = "fetched"
    /\ Len(fetch.allTransactions) = 0
    /\ fetch' = [fetch EXCEPT
                    !.pc = "done",
                    !.out = StatsResponse(fetch.allTransactions,
                                          fetch.nftBagValue, FALSE)]
    /\ UNCHANGED <<call, store, stats, job, writes, resp, runs, used, lb, lbNext>>

\* The metrics are computed, the record is upserted with its scores and
\* recalculateAllRankings rewrites the scores of every record.
FetchSave ==
    /\ fetch.pc = "fetched"
    /\ Len(fetch.allTransactions) > 0
    /\ LET ws == WalletStats(fetch.allTransactions, fetch.nftBagValue)
       IN  store' = StatsHandled(store, fetch.wallet, MetricsOf(ws))
    /\ fetch' = [fetch EXCEPT
                    !.pc = "done",
                    !.out = StatsResponse(fetch.allTransactions,
                                          fetch.nftBagValue, FALSE)]
    /\ UNCHANGED <<call, stats, job, writes, resp, runs, used, lb, lbNext>>

\* The same with a database call that throws: findMany or the upsert
\* (nothing is written), or an update of recalculateAllRankings (the upsert
\* and any of the other updates are written).
FetchSaveFails(stage) ==
    /\ fetch.pc = "fetched"
    /\ Len(fetch.allTransactions) > 0
    /\ used.fail < MaxFailures
    /\ used' = [used EXCEPT !.fail = @ + 1]
    /\ IF stage = "recalc"
       THEN LET m == MetricsOf(WalletStats(fetch.allTransactions,
                                           fetch.nftBagValue))
                allUserMetrics == Append(AllMetrics(store), m)
                s == calculateComponentScores(m, allUserMetrics)
            IN  \E st1 \in {Upsert(store, fetch.wallet, m, s,
                                   [m |-> m, pop |-> allUserMetrics])} :
                \E updates \in {BatchUpdates("stats", "rankings", st1,
                                             [i \in 1..Len(st1) |-> i])} :
                \E done \in SUBSET updates :
                    /\ done # updates
                    /\ store' = ApplyUpdates(st1, done)
       ELSE store' = store
    /\ fetch' = [fetch EXCEPT
                    !.pc = "done", !.dbError = TRUE,
                    !.out = StatsResponse(fetch.allTransactions,
                                          fetch.nftBagValue, TRUE)]
    /\ UNCHANGED <<call, stats, job, writes, resp, runs, lb, lbNext>>

NextStats ==
    \/ \E wallet \in Addresses, up \in UpstreamInputs, nftBagValue \in NftInputs :
          FetchStart(wallet, up, nftBagValue)
    \/ FetchPageReturns
    \/ FetchAttemptFails
    \/ FetchBackoffEnds
    \/ FetchAbort
    \/ FetchNotFound
    \/ FetchSave
    \/ \E stage \in {"read", "upsert", "recalc"} : FetchSaveFails(stage)

SpecStats == Init /\ [][NextStats]_vars

(***************************************************************************)
(* Properties of GET /api/stats (SpecStats)                                *)
(***************************************************************************)
\* C11: a request one of whose page fetches failed at the retry ceiling is
\* answered with 500, and the table is as it was when the request began:
\* nothing computed from the pages fetched before the failure is stored.
C11_ExhaustedFetchFailsRequest ==
    (fetch.pc = "done" /\ fetch.exhausted) =>
        /\ fetch.out.status = 500
        /\ store = fetch.before

\* C12: once the abort signal has fired during the fetch, no attempt is in
\* flight any more and the request leaves the table as it was when the
\* request began.
C12_AbortWritesNothing ==
    (fetch.pc # "idle" /\ fetch.aborted) =>
        /\ fetch.pc # "attempt"
        /\ store = fetch.before

StoredMetrics(st, wallet) ==
    {st[i].m : i \in {j \in 1..Len(st) : st[j].walletAddress = wallet}}

\* C13: when the explorer holds no transaction for the wallet the request
\* is answered 404 and writes nothing; when transactions were fetched and
\* none is at or after the launch, it is answered 200 with txCount,
\* gasSpentMON, totalVolume and longestStreak zero and an empty history,
\* and the record it stores has these and daysActive zero.
C13_NoTransactionsOrNoneAfterLaunch ==
    fetch.pc = "done" =>
        /\ fetch.up = <<>> =>
              /\ fetch.out.status = 404
              /\ store = fetch.before
        /\ ( /\ Len(fetch.allTransactions) > 0
             /\ \A i \in 1..Len(fetch.allTransactions) :
                    fetch.allTransactions[i].timeStamp < launchDate ) =>
              /\ fetch.out.status = 200
              /\ fetch.out.body.txCount = 0
              /\ fetch.out.body.gasSpentMON = 0
              /\ fetch.out.body.totalVolume = 0
              /\ fetch.out.body.longestStreak = 0
              /\ fetch.out.body.transactionHistory = <<>>
              /\ ~fetch.dbError =>
                    \A m \in StoredMetrics(store, fetch.wallet) :
                        /\ m.txCount = 0 /\ m.gasSpentMON = 0
                        /\ m.totalVolume = 0 /\ m.longestStreak = 0
                        /\ m.daysActive = 0

\* A wallet whose only transaction precedes the launch and cost gas: the
\* request succeeded with zero metrics and created the wallet's record.
C13_Witness ==
    /\ fetch.pc = "done"
    /\ Len(fetch.allTransactions) = 1
    /\ fetch.allTransactions[1].timeStamp < launchDate
    /\ fetch.allTransactions[1].gas > 0
    /\ fetch.out.status = 200
    /\ ~fetch.dbError
    /\ Len(store) = Len(fetch.before) + 1

\* C14: the table holds at most one record per wallet address, addresses
\* being compared without regard to letter case.
C14_OneRecordPerAddress ==
    \A i, j \in 1..Len(store) :
        Lower(store[i].walletAddress) = Lower(store[j].walletAddress) => i = j

(***************************************************************************)
(* Request validation of GET /api/leaderboard (SpecLeaderboard)            *)
(***************************************************************************)
\* C15: a request whose sortBy is none of the seven sort fields, or whose
\* sortOrder is neither asc nor desc, is answered 400 and issues neither
\* the count nor the findMany query.
C15_InvalidSortRejected ==
    ( /\ lb.status # 0
      /\ \/ lb.q.sortBy \notin {"totalScore", "totalVolume", "gasSpentMON",
                                "txCount", "nftBagValue", "daysActive",
                                "longestStreak"}
         \/ lb.q.sortOrder \notin {"asc", "desc"} ) =>
        /\ lb.status = 400
        /\ lb.queries = 0

\* A request with a valid sort field and an unknown direction was rejected
\* while the table held rows matching it.
C15_Witness ==
    /\ lb.status = 400
    /\ lb.queries = 0
    /\ lb.q.sortBy = "totalVolume"
    /\ lb.q.sortOrder = "down"
    /\ lb.q.search = <<>>
    /\ Len(store) >= 2

(***************************************************************************)
(* Persistence failures of GET /api/stats (SpecStats)                      *)
(***************************************************************************)
\* C16: a request whose metrics were computed and whose database work
\* failed (reading the population, writing the record, or recalculating)
\* is still answered 200 with the computed stats.
C16_DbFailureStillSucceeds ==
    (fetch.pc = "done" /\ fetch.dbError) =>
        /\ fetch.out.status = 200
        /\ fetch.out.body
             = ResponseBody(WalletStats(fetch.allTransactions, fetch.nftBagValue))

\* A request over three transactions whose recalculation failed after the
\* record was written: answered 200 with txCount 3.
C16_Witness ==
    /\ fetch.pc = "done"
    /\ fetch.dbError
    /\ store # fetch.before
    /\ fetch.out.status = 200
    /\ fetch.out.body.txCount = 3

(***************************************************************************)
(* NFT bag value                                                           *)
(*                                                                         *)
(* Floor prices and volumes are whole numbers of thousandths of a MON      *)
(* (0.001 MON = 1), so MIN_FLOOR_PRICE is 1 and MIN_TRADING_VOLUME is 10.  *)
(* A value is a record [mon, milli]: whole MON and thousandths below 1000. *)
(* Holding counts and collection sizes are natural numbers.                *)
(***************************************************************************)
MIN_FLOOR_PRICE == 1

MIN_TRADING_VOLUME == 10

SUSPICIOUS_HOLDINGS_THRESHOLD == 10000

ERC1155_SUSPICIOUS_THRESHOLD == 10000

MAX_HOLDINGS_MULTIPLIER == 1000

MIN_COLLECTION_SIZE == 10

MAX_VALUE_PER_COLLECTION == 1000000

maxTotalValue == 10000000

AmountOf(milli) == [mon |-> milli \div 1000, milli |-> milli % 1000]

AddAmount(x, y) ==
    [mon |-> x.mon + y.mon + (x.milli + y.milli) \div 1000,
     milli |-> (x.milli + y.milli) % 1000]

\* value > n, n a whole number of MON
ExceedsMON(value, n) == value.mon > n \/ (value.mon = n /\ value.milli > 0)

Zero == AmountOf(0)

\* An entry of data.collections: 7-day floor sale, ownership.tokenCount,
\* contract kind, 7-day volume and collection.tokenCount.
Collection(floorSale, owned, contractKind, volume, tokenCount) ==
    [floorSale |-> floorSale, owned |-> owned, contractKind |-> contractKind,
     volume |-> volume, tokenCount |-> tokenCount]

validateNFTCollection(collection, sevenDayFloorSale, holdingItems) ==
    LET rawValue == sevenDayFloorSale * holdingItems
        isERC1155 == collection.contractKind = "erc1155"
        holdingsThreshold == IF isERC1155 THEN ERC1155_SUSPICIOUS_THRESHOLD
                             ELSE SUSPICIOUS_HOLDINGS_THRESHOLD
        sevenDayVolume == collection.volume
        collectionSize == collection.tokenCount
        Invalid(reason) ==
            [isValid |-> FALSE, reason |-> reason, adjustedValue |-> Zero]
    IN  IF sevenDayFloorSale < MIN_FLOOR_PRICE
        THEN Invalid("Floor price too low")
        ELSE IF holdingItems > holdingsThreshold
        THEN Invalid("Suspicious holdings")
        ELSE IF sevenDayVolume > 0 /\ sevenDayVolume < MIN_TRADING_VOLUME
        THEN Invalid("Low trading volume")
        ELSE IF /\ ~isERC1155 /\ collectionSize > 0
                /\ holdingItems > MAX_HOLDINGS_MULTIPLIER * collectionSize
        THEN Invalid("Holdings too large relative to collection")
        ELSE IF /\ ~isERC1155 /\ collectionSize > 0
                /\ collectionSize < MIN_COLLECTION_SIZE
        THEN Invalid("Collection too small")
        ELSE IF ExceedsMON(AmountOf(rawValue), MAX_VALUE_PER_COLLECTION)
        THEN Invalid("Collection value too high")
        ELSE [isValid |-> TRUE, reason |-> "", adjustedValue |-> AmountOf(rawValue)]

\* What one collection adds to the total in the reduce of fetchNFTBagValue.
Contribution(collection) ==
    LET sevenDayFloorSale == collection.floorSale
        holdingItems == IF collection.owned = 0 THEN 1 ELSE collection.owned
        validation == validateNFTCollection(collection, sevenDayFloorSale,
                                            holdingItems)
    IN  IF validation.isValid THEN validation.adjustedValue ELSE Zero

TotalValue(collections) ==
    LET F[i \in 0..Len(collections)] ==
            IF i = 0 THEN Zero
            ELSE AddAmount(F[i - 1], Contribution(collections[i]))
    IN  F[Len(collections)]

\* A bag value without the final ceiling.
fetchNFTBagValue_NoCeiling(ok, collections) ==
    IF ~ok THEN Zero ELSE TotalValue(collections)

\* ok: the holdings request was answered with an OK status and parsed.
fetchNFTBagValue(ok, collections) ==
    IF ~ok THEN Zero
    ELSE LET totalValue == TotalValue(collections)
         IN  IF ExceedsMON(totalValue, maxTotalValue)
             THEN [mon |-> maxTotalValue, milli |-> 0]
             ELSE totalValue

\* Collections the holdings source reports.  AtCap is worth exactly
\* MAX_VALUE_PER_COLLECTION (100 MON x 10000 held).
AtCap == Collection(100000, 10000, "erc721", 0, 10000)

CollectionInputs ==
    { Collection(0, 5, "erc721", 0, 100),          \* no floor sale
      Collection(1, 0, "erc721", 0, 100),          \* minimum floor, count 0
      Collection(1500, 3, "erc721", 20, 100),      \* 4.5 MON
      AtCap,
      Collection(100001, 10000, "erc721", 0, 10000),  \* just above the cap
      Collection(1000, 10001, "erc1155", 0, 0),    \* holdings above threshold
      Collection(1000, 3, "erc1155", 5, 1),        \* 7-day volume below minimum
      Collection(1000, 2001, "erc721", 0, 2),      \* holdings above 1000 x size
      Collection(1000, 2, "erc721", 0, 5) }        \* collection too small

\* Lists: some collections at the cap followed by a few of any kind.
MaxAtCap == 11
MaxOthers == 2

CollectionLists ==
    { [i \in 1..n |-> AtCap] \o tail :
        n \in 0..MaxAtCap, tail \in SeqUpTo(CollectionInputs, MaxOthers) }

\* One call of fetchNFTBagValue per behaviour.
NftCall(ok, collections) ==
    /\ call.op = None
    /\ call' = [op |-> "nft", ok |-> ok, collections |-> collections,
                contributions |->
                    [i \in 1..Len(collections) |-> Contribution(collections[i])],
                nftBagValue |-> fetchNFTBagValue(ok, collections)]
    /\ UNCHANGED <<fetch, store, stats, job, writes, resp, runs, used, lb,
                   lbNext>>

NextNft ==
    \E ok \in BOOLEAN, collections \in CollectionLists : NftCall(ok, collections)

SpecNft == Init /\ [][NextNft]_vars

\* C17: the bag value lies between 0 and the ceiling of 10,000,000 MON and
\* no collection contributes more than 1,000,000 MON to it.
C17_BagValueCapped ==
    call.op = "nft" =>
        /\ call.nftBagValue.mon >= 0 /\ call.nftBagValue.milli >= 0
        /\ ~ExceedsMON(call.nftBagValue, 10000000)
        /\ \A i \in 1..Len(call.contributions) :
              ~ExceedsMON(call.contributions[i], 1000000)

\* Eleven collections at the per-collection cap and one small one: the sum
\* of 11,000,004.5 MON is cut to the ceiling.
C17_Witness ==
    /\ call.op = "nft"
    /\ call.ok
    /\ Len(call.collections) = 12
    /\ \A i \in 1..11 : call.contributions[i] = [mon |-> 1000000, milli |-> 0]
    /\ call.contributions[12] = [mon |-> 4, milli |-> 500]
    /\ call.nftBagValue = [mon |-> 10000000, milli |-> 0]

(***************************************************************************)
(* The log transform and the weights (SpecScoring)                         *)
(***************************************************************************)
\* C18: for the population [0, 10, 1000000] the log-transformed normalizer
\* orders the three values as the linear one does, and its gap between the
\* scores of the top and the middle value is strictly smaller than the
\* linear normalizer's gap.
C18_LogGapSmaller ==
    (call.op = "spread" /\ call.allValues = <<0, 10, 1000000>>) =>
        /\ \A i, j \in 1..3 :
              (call.linear[i] < call.linear[j]) <=> (call.log[i] < call.log[j])
        /\ call.log[3] - call.log[2] < call.linear[3] - call.linear[2]

\* The weights GET /api/recalculate-scores reports (currentWeights) and
\* POST /api/recalculate-scores repeats (newWeights), in hundredths; the
\* README lists the same percentages.
currentWeights ==
    [volume |-> 25, gas |-> 20, transactions |-> 15, nft |-> 20,
     daysActive |-> 10, streak |-> 5, day1Bonus |-> 5]

\* C19: the total score weights the components by 25, 20, 15, 20 (nft), 10,
\* 5 (streak) and 5 percent, the weights the recalculate-scores endpoint
\* reports.
C19_ReportedWeightsApplied ==
    /\ currentWeights = [volume |-> 25, gas |-> 20, transactions |-> 15,
                         nft |-> 20, daysActive |-> 10, streak |-> 5,
                         day1Bonus |-> 5]
    /\ call.op = "compose" =>
          call.scores.totalScore
            = RoundDiv(call.scores.volumeScore * currentWeights.volume
                       + call.scores.gasScore * currentWeights.gas
                       + call.scores.transactionScore * currentWeights.transactions
                       + call.scores.nftScore * currentWeights.nft
                       + call.scores.daysActiveScore * currentWeights.daysActive
                       + call.scores.streakScore * currentWeights.streak
                       + call.scores.day1BonusScore * currentWeights.day1Bonus,
                       100)

\* C20: the seven configured weights are non-negative and sum to 1.0, so
\* that a wallet with every component at 100 has a total of exactly 100.
C20_WeightsSumToOne ==
    /\ \A k \in DOMAIN WEIGHTS : WEIGHTS[k] >= 0
    /\ DOMAIN WEIGHTS = {"volume", "gas", "transactions", "nft", "daysActive",
                         "streak", "day1Bonus"}
    /\ WEIGHTS.volume + WEIGHTS.gas + WEIGHTS.transactions + WEIGHTS.nft
         + WEIGHTS.daysActive + WEIGHTS.streak + WEIGHTS.day1Bonus = 100
    /\ ( /\ call.op = "compose"
         /\ \A f \in ComponentFields : call.scores[f] = 10000 ) =>
            call.scores.totalScore = 10000

\* A day-1 wallet scored against a population of one: every component is
\* 100 and so is the total.
C20_Witness ==
    /\ call.op = "compose"
    /\ Len(call.allUsersMetrics) = 1
    /\ call.userMetrics.isDay1User
    /\ \A f \in ComponentFields : call.scores[f] = 10000
    /\ call.scores.totalScore = 10000

(***************************************************************************)
(* Calls of the metric functions on a list of transactions                 *)
(***************************************************************************)
MaxTx == 4

\* Transactions by timestamp: one second before the launch, at the launch,
\* at the end of the launch day, and one, two and five days later.
TxInputs ==
    { Tx("t", 1, launchDate - 1, 2, 1),
      Tx("t", 1, launchDate, 1, 1),
      Tx("t", 1, launchDate + DaySeconds - 1, 1, 2),
      Tx("t", 1, launchDate + DaySeconds, 3, 0),
      Tx("t", 1, launchDate + 2 * DaySeconds, 1, 1),
      Tx("t", 1, launchDate + 5 * DaySeconds, 1, 1) }

\* Hosts: UTC, and hosts whose local day following the launch day is 23
\* hours (clocks set forward) or 25 hours (clocks set back) long.
TimeZoneInputs ==
    { UTC,
      TimeZone(DayOf(launchDate) + 1, 0 - 3600),
      TimeZone(DayOf(launchDate) + 1, 3600) }

TimeStamps(transactions) ==
    [i \in 1..Len(transactions) |-> transactions[i].timeStamp]

\* One evaluation of the metrics of the handler per behaviour.
MetricsCall(tz, transactions) ==
    /\ call.op = None
    /\ \E transactionHistory \in
            {generateTransactionHistoryIn(tz, validTransactions(transactions))} :
       call' = [op |-> "metrics", tz |-> tz, transactions |-> transactions,
                txCount |-> Len(validTransactions(transactions)),
                gasSpentMON |-> calculateGasSpent(transactions),
                totalVolume |-> calculateTotalVolume(transactions),
                longestStreak |->
                    calculateLongestStreak(TimeStamps(transactions)),
                transactionHistory |-> transactionHistory,
                daysActive |-> calculateDaysActive(transactionHistory)]
    /\ UNCHANGED <<fetch, store, stats, job, writes, resp, runs, used, lb,
                   lbNext>>

NextMetrics ==
    \E tz \in TimeZoneInputs, transactions \in SeqUpTo(TxInputs, MaxTx) :
        MetricsCall(tz, transactions)

SpecMetrics == Init /\ [][NextMetrics]_vars

\* The distinct UTC dates holding a transaction at or after the launch.
ActiveDates(transactions) ==
    {DayOf(transactions[i].timeStamp) :
        i \in {j \in 1..Len(transactions) :
                  transactions[j].timeStamp >= launchDate}}

\* Length of the longest run of consecutive dates in a set of dates.
LongestRun(dates) ==
    IF dates = {} THEN 0
    ELSE LET Runs == {n \in 1..Cardinality(dates) :
                        \E d \in dates : \A k \in 0..(n - 1) : d + k \in dates}
         IN  CHOOSE n \in Runs : \A m \in Runs : n >= m

\* C21: calculateLongestStreak returns the length of the longest run of
\* consecutive UTC dates among the dates holding a transaction at or after
\* the launch (0 without one, 1 for a single date, 3 for D, D+1, D+2, D+5),
\* whatever the order and multiplicity of the timestamps.
C21_LongestStreak ==
    call.op = "metrics" =>
        LET dates == ActiveDates(call.transactions)
            D == DayOf(launchDate)
        IN  /\ call.longestStreak = LongestRun(dates)
            /\ dates = {} => call.longestStreak = 0
            /\ Cardinality(dates) = 1 => call.longestStreak = 1
            /\ dates = {D, D + 1, D + 2, D + 5} => call.longestStreak = 3

\* The dates D+5, D+1, D, D+2, given in this order: the streak is 3.
C21_Witness ==
    /\ call.op = "metrics"
    /\ Len(call.transactions) = 4
    /\ [i \in 1..4 |-> DayOf(call.transactions[i].timeStamp) - DayOf(launchDate)]
         = <<5, 1, 0, 2>>
    /\ call.longestStreak = 3

\* The positions of the transactions at or after the launch.
PostEpoch(transactions) ==
    {i \in 1..Len(transactions) : transactions[i].timeStamp >= launchDate}

RECURSIVE SumOver(_, _, _)
SumOver(transactions, indices, field) ==
    IF indices = {} THEN 0
    ELSE LET i == CHOOSE i \in indices : TRUE
         IN  transactions[i][field]
               + SumOver(transactions, indices \ {i}, field)

RECURSIVE ColumnSum(_, _)
ColumnSum(transactionHistory, field) ==
    IF Len(transactionHistory) = 0 THEN 0
    ELSE Head(transactionHistory)[field]
           + ColumnSum(Tail(transactionHistory), field)

\* C22: every metric counts exactly the transactions timestamped at or
\* after the launch (the launch second included, the second before it
\* excluded), so txCount, totalVolume and gasSpentMON equal the sums of the
\* transactions, volume and gasSpent columns of the daily series.
C22_EpochFilterConsistent ==
    call.op = "metrics" =>
        LET post == PostEpoch(call.transactions) IN
        /\ call.txCount = Cardinality(post)
        /\ call.totalVolume = SumOver(call.transactions, post, "value")
        /\ call.gasSpentMON = SumOver(call.transactions, post, "gas")
        /\ call.longestStreak = 0 <=> post = {}
        /\ call.txCount = ColumnSum(call.transactionHistory, "transactions")
        /\ call.totalVolume = ColumnSum(call.transactionHistory, "volume")
        /\ call.gasSpentMON = ColumnSum(call.transactionHistory, "gasSpent")

\* The filter alone: the four scalar metrics count exactly the transactions
\* at or after the launch, and the series holds no other date.
C22_FilterAlone ==
    call.op = "metrics" =>
        LET post == PostEpoch(call.transactions) IN
        /\ call.txCount = Cardinality(post)
        /\ call.totalVolume = SumOver(call.transactions, post, "value")
        /\ call.gasSpentMON = SumOver(call.transactions, post, "gas")
        /\ call.longestStreak = LongestRun(ActiveDates(call.transactions))
        /\ \A k \in 1..Len(call.transactionHistory) :
              call.transactionHistory[k].transactions > 0 =>
                 call.transactionHistory[k].date
                    \in ActiveDates(call.transactions)

\* C29: the daily series holds exactly one entry per UTC date from the
\* first to the last active date, ascending, with zeros on the dates without
\* activity; daysActive is the number of distinct active dates, and
\* longestStreak <= daysActive <= txCount.
C29_HistoryOnePerDate ==
    call.op = "metrics" =>
        LET dates == ActiveDates(call.transactions)
            h == call.transactionHistory
            first == CHOOSE d \in dates : \A e \in dates : d <= e
            last == CHOOSE d \in dates : \A e \in dates : d >= e
        IN  /\ dates = {} => Len(h) = 0
            /\ dates # {} =>
                 /\ Len(h) = last - first + 1
                 /\ \A k \in 1..Len(h) :
                      /\ h[k].date = first + k - 1
                      /\ h[k].date \notin dates =>
                            /\ h[k].transactions = 0
                            /\ h[k].volume = 0
                            /\ h[k].gasSpent = 0
                      /\ h[k].date \in dates => h[k].transactions > 0
            /\ call.daysActive = Cardinality(dates)
            /\ call.longestStreak <= call.daysActive
            /\ call.daysActive <= call.txCount

\* On a host whose local days all last 24 hours the series sums and the
\* one-entry-per-date property hold.
SeriesExactOnUtcHost ==
    (call.op = "metrics" /\ call.tz = UTC) =>
        /\ C22_EpochFilterConsistent
        /\ C29_HistoryOnePerDate

\* C23: one page takes at most three attempts; a failed attempt below the
\* ceiling is followed by a wait of 1s, then 2s (never above 5s) and a
\* further attempt, the third failure raises the error, and a "no data"
\* answer ends the call at once with an empty page, no retry and no error.
C23_BoundedRetry ==
    /\ [](fetch.pc # "idle" =>
            /\ fetch.attempt \in 1..3
            /\ fetch.delay <= 5000
            /\ fetch.pc = "backoff" =>
                  /\ fetch.attempt < 3
                  /\ fetch.delay = IF fetch.attempt = 1 THEN 1000 ELSE 2000
            /\ fetch.exhausted => fetch.attempt = 3 /\ fetch.delay = 2000
            /\ fetch.noData =>
                  /\ fetch.pc \in {"fetched", "done"}
                  /\ ~fetch.exhausted)
    /\ [][(fetch.pc = "attempt" /\ fetch'.pc = "backoff") =>
             (fetch.attempt < 3 /\ fetch'.attempt = fetch.attempt)]_vars
    /\ [][(fetch.pc = "backoff" /\ fetch'.pc = "attempt") =>
             fetch'.attempt = fetch.attempt + 1]_vars
    /\ [][(fetch.pc = "attempt" /\ fetch'.pc = "fetched"
              /\ ~fetch'.aborted /\ ~fetch'.exhausted) =>
             (fetch'.attempt = fetch.attempt /\ fetch'.delay = fetch.delay)]_vars

\* The third attempt for the first page failed after waits of 1s and 2s.
C23_Witness ==
    /\ fetch.pc = "fetched"
    /\ fetch.exhausted
    /\ fetch.attempt = 3
    /\ fetch.delay = 2000
    /\ fetch.batchCount = 1

\* A "no data" answer on a retry ended the call with an empty page.
C23_WitnessNoData ==
    /\ fetch.pc = "fetched"
    /\ fetch.noData
    /\ fetch.attempt = 2
    /\ ~fetch.exhausted

\* C24: the population a stats refresh hands to the normalizer holds
\* exactly one entry per wallet: the current metrics of the refreshed
\* wallet and the stored metrics of every other wallet, also when the
\* refreshed wallet already has a record.
C24_PopulationOnePerWallet ==
    stats.pc = "scored" =>
        LET others == {i \in 1..Len(store) :
                          store[i].walletAddress # stats.wallet}
            pop == stats.src.pop
        IN  /\ Len(pop) = Cardinality(others) + 1
            /\ Cardinality({k \in 1..Len(pop) : pop[k] = stats.m}) >= 1
            /\ \A i \in others : \E k \in 1..Len(pop) : pop[k] = store[i].m

\* C25: in every state the scores stored in a record were computed from
\* the raw metrics stored in that same record.
C25_ScoresFromStoredMetrics ==
    \A i \in 1..Len(store) : store[i].src.m = store[i].m

\* The stale scores outlive every request: nothing is running or pending
\* and a record still holds scores computed from replaced metrics.
C25_NoStaleScoresAtRest ==
    ~ /\ writes = {}
      /\ stats.pc = "idle"
      /\ \A o \in Owners : job[o].pc = "idle"
      /\ \E i \in 1..Len(store) :
            /\ store[i].src.m # store[i].m
            /\ store[i].s # calculateComponentScores(store[i].m, AllMetrics(store))

\* C26: for one store, filter, sort field, direction and page size, the
\* pages 1..totalPages together hold every matching wallet exactly once,
\* also when wallets tie on the sort field (here: a result of two pages).
C26_PagesPartitionMatches ==
    (/\ lb.status = 200 /\ lbNext.status = 200
     /\ lb.q.page = 1 /\ lb.pagination.totalPages = 2) =>
        LET all == lb.leaderboard \o lbNext.leaderboard
            matching == {store[r].walletAddress : r \in
                            {q \in 1..Len(store) :
                                ContainsInsensitive(store[q].walletAddress,
                                                    lb.q.search)}}
        IN  /\ \A i, j \in 1..Len(all) :
                  all[i].walletAddress = all[j].walletAddress => i = j
            /\ {all[i].walletAddress : i \in 1..Len(all)} = matching

\* Without a tie on the sort field among the matching wallets the pages
\* do partition them.
C26_PartitionWithoutTies ==
    (/\ lb.status = 200 /\ lbNext.status = 200
     /\ \A r, q \in 1..Len(store) :
          (/\ r # q
           /\ ContainsInsensitive(store[r].walletAddress, lb.q.search)
           /\ ContainsInsensitive(store[q].walletAddress, lb.q.search))
          => SortKey(store[r], lb.q.sortBy) # SortKey(store[q], lb.q.sortBy))
    => C26_PagesPartitionMatches

\* C27: when no page fetch fails, fetchTransactions returns every
\* transaction the explorer holds for the wallet exactly once, in ascending
\* block order, also when transactions share the block number of the last
\* entry of a full page.
C27_FetchComplete ==
    (fetch.pc \in {"fetched", "done"} /\ ~fetch.exhausted /\ ~fetch.aborted)
        => fetch.allTransactions = fetch.up

\* The rest of the claim: nothing is returned twice or out of order, the
\* block cursor grows from page to page, and the loop stops on the first
\* short or empty page.
C27_NoDuplicateCursorGrows ==
    /\ [](fetch.pc # "idle" =>
            /\ \A i, j \in 1..Len(fetch.allTransactions) :
                  /\ i < j => fetch.allTransactions[i].blockNumber
                                <= fetch.allTransactions[j].blockNumber
                  /\ fetch.allTransactions[i].hash
                        = fetch.allTransactions[j].hash => i = j
            /\ \A i \in 1..Len(fetch.allTransactions) :
                  \E k \in 1..Len(fetch.up) :
                     fetch.up[k] = fetch.allTransactions[i])
    /\ [][(fetch.pc = "attempt" /\ fetch'.pc = "attempt"
              /\ fetch'.batchCount = fetch.batchCount + 1) =>
             /\ fetch'.startBlock > fetch.startBlock
             /\ Len(fetch'.allTransactions)
                   = Len(fetch.allTransactions) + PageLimit]_vars
    /\ [][(fetch.pc = "attempt" /\ fetch'.pc = "fetched"
              /\ ~fetch'.exhausted /\ ~fetch'.aborted) =>
             Len(fetch'.allTransactions) - Len(fetch.allTransactions)
                < PageLimit]_vars

\* The rejection rules by floor price, holding count, 7-day volume and,
\* for ERC721, holdings-to-size ratio and collection size.
ListedRuleApplies(c, holdingCount) ==
    \/ c.floorSale < 1
    \/ holdingCount > 10000
    \/ (c.volume > 0 /\ c.volume < 10)
    \/ /\ c.contractKind # "erc1155"
       /\ c.tokenCount > 0
       /\ (holdingCount > 1000 * c.tokenCount \/ c.tokenCount < 10)

\* C28: a collection contributes floorPrice x holdingCount when no
\* rejection rule applies and 0 when one applies, for every floor price and
\* holding count from 0 on.
C28_ContributionByRules ==
    call.op = "nft" =>
        \A i \in 1..Len(call.collections) :
            LET c == call.collections[i] IN
            call.contributions[i] =
                IF ListedRuleApplies(c, c.owned) THEN Zero
                ELSE AmountOf(c.floorSale * c.owned)

\* What the code does: a holding count of 0 counts as 1, and a product
\* above 1,000,000 MON is rejected as well; a rejection only zeroes the
\* collection, the others still count.
C28_ContributionAsComputed ==
    call.op = "nft" =>
        /\ \A i \in 1..Len(call.collections) :
              LET c == call.collections[i]
                  n == IF c.owned = 0 THEN 1 ELSE c.owned
              IN  call.contributions[i] =
                     IF \/ ListedRuleApplies(c, n)
                        \/ c.floorSale * n > 1000 * 1000000
                     THEN Zero
                     ELSE AmountOf(c.floorSale * n)
        /\ (call.ok /\ \E i \in 1..Len(call.contributions) :
                          call.contributions[i] # Zero)
              => call.nftBagValue # Zero

\* A step of a recalculation: the endpoint or recalculateAllRankings reads
\* the table and issues its update calls, or one of the calls is executed
\* or rejected.
RecalculationStep ==
    \/ writes' # writes
    \/ used'.recalc # used.recalc
    \/ (stats.pc = "recalc" /\ stats'.pc # "recalc")

====
